---- MODULE Spec2Model ----
(***************************************************************************)
(* Model of rust-backend-starter's authentication layer: the token        *)
(* service (utils/auth.rs), the bearer-token gate (middleware/auth.rs),    *)
(* the signup/login handlers (handlers/auth.rs) and the per-user item      *)
(* handlers (handlers/items.rs).                                           *)
(*                                                                         *)
(* jsonwebtoken's encode/decode and bcrypt's hash/verify are modelled by   *)
(* what they do: a token is a sequence of segments, a segment either       *)
(* decodes to the value it encodes or is junk, and a signature segment is  *)
(* the keyed MAC of the two segments it was computed over.                 *)
(***************************************************************************)
EXTENDS Integers, Sequences, FiniteSets, TLC

VARIABLES
    now,            \* Utc::now().timestamp(), seconds
    jwt_expiration, \* Config.jwt_expiration, fixed for a run
    tok,            \* the token string the client currently holds
    meta,           \* ghost: how tok was issued (or that it was not)
    last,           \* outcome of the last verify_token / create_token call
    gate,           \* outcomes of the last requests through auth_middleware
    users,          \* rows of table users
    plain,          \* ghost: the password each user row was registered with
    nextUser,       \* next id the database generates for a users row
    schemaUnique,   \* whether the users table enforces unique email/username
    proc,           \* per worker: the request it is in the middle of
    resp,           \* per worker: the response of its last finished request
    items,          \* rows of table items
    nextItem,       \* next id the database generates for an items row
    itemResp,       \* the response of the last finished items request
    actor           \* ghost: the user whose token the last writing request bore

tokenVars == <<now, jwt_expiration, tok, meta, last, gate>>

authVars == <<users, plain, nextUser, schemaUnique, proc, resp>>

itemVars == <<items, nextItem, itemResp, actor>>

appVars == <<authVars, itemVars>>

vars == <<tokenVars, appVars>>

----------------------------------------------------------------------------
(* Bounds *)

MaxTtl == 2
MaxUsers == 2
MaxIssueTime == 1

(* jsonwebtoken's Validation::default(): leeway of 60 seconds on exp. *)
Leeway == 60

MaxTime == Leeway + MaxTtl + 2

Uuids == 1..MaxUsers
Emails == {"a@b.com", "c@d.com"}
Clients == {"c1", "c2"}

(* Config.jwt_secret, and a key the server does not use. *)
JwtSecret == "jwt-secret"
OtherKey == "other-key"

NoToken == <<>>
Junk == [kind |-> "junk"]
NotClaims == [kind |-> "json", what |-> "no-claims-fields"]

----------------------------------------------------------------------------
(* utils/auth.rs *)

(* Uuid::to_string and str::parse::<Uuid>. *)
UuidToString(u) == [kind |-> "uuid-str", id |-> u]

ParseUuid(s) ==
    IF s.kind = "uuid-str" THEN [ok |-> TRUE, id |-> s.id]
    ELSE [ok |-> FALSE, id |-> 0]

(* Claims::new with the expiration left at now. *)
ClaimsNewNoTtl(user_id, email, ttl, t) ==
    [sub |-> UuidToString(user_id), email |-> email, exp |-> t, iat |-> t]

(* Claims::new: iat = now, exp = now + jwt_expiration; no check of the ttl. *)
ClaimsNew(user_id, email, ttl, t) ==
    [sub |-> UuidToString(user_id), email |-> email, exp |-> t + ttl, iat |-> t]

(* base64url(json(x)) of a header and of a claims object. *)
EncodeHeader(alg) == [kind |-> "hdr", alg |-> alg]

EncodeClaims(c) ==
    [kind |-> "claims", sub |-> c.sub, email |-> c.email, exp |-> c.exp, iat |-> c.iat]

(* base64url(HMAC-SHA256(key, hdr "." payload)). *)
Sign(key, hdr, payload) ==
    [kind |-> "sig", key |-> key, hdr |-> hdr, payload |-> payload]

(* create_token: encode(&Header::default(), &claims, secret); Header::default *)
(* is HS256.  The Result is always Ok for an HMAC key.                        *)
create_token(user_id, email, ttl, t) ==
    LET hdr == EncodeHeader("HS256")
        payload == EncodeClaims(ClaimsNew(user_id, email, ttl, t))
    IN  [ok |-> TRUE, token |-> <<hdr, payload, Sign(JwtSecret, hdr, payload)>>]

Err(kind) == [ok |-> FALSE, kind |-> kind]

DecodeClaims(p) ==
    [sub |-> p.sub, email |-> p.email, exp |-> p.exp, iat |-> p.iat]

(* Validation::default() validates exp with its leeway. *)
Expired(exp, t) == exp < t - Leeway

(* The signature segment is the MAC of the first two under the key. *)
SignatureOk(token, key) == token[3] = Sign(key, token[1], token[2])

(* verify_token: decode::<Claims>(token, secret, &Validation::default()).   *)
(* jsonwebtoken splits the string, decodes the header, checks the           *)
(* algorithm, verifies the signature over the first two segments, and only  *)
(* then decodes the payload and validates exp.                              *)
verify_token(token, t) ==
    IF Len(token) # 3 THEN Err("InvalidToken")
    ELSE IF token[1].kind # "hdr" THEN Err("Base64")
    ELSE IF token[1].alg # "HS256" THEN Err("InvalidAlgorithm")
    ELSE IF ~SignatureOk(token, JwtSecret) THEN Err("InvalidSignature")
    ELSE IF token[2].kind = "junk" THEN Err("Base64")
    ELSE IF token[2].kind # "claims" THEN Err("Json")
    ELSE IF Expired(token[2].exp, t) THEN Err("ExpiredSignature")
    ELSE [ok |-> TRUE, claims |-> DecodeClaims(token[2])]

(* The spec's three failure classes in terms of jsonwebtoken's error kinds. *)
IsMalformed(r) == ~r.ok /\ r.kind \in {"InvalidToken", "Base64", "Json"}
IsInvalidSignature(r) == ~r.ok /\ r.kind = "InvalidSignature"
IsExpired(r) == ~r.ok /\ r.kind = "ExpiredSignature"

----------------------------------------------------------------------------
(* middleware/auth.rs *)

(* HeaderValue::to_str: Some only for visible-ASCII header bytes. *)
ToStr(h) ==
    IF h.kind = "text" THEN [some |-> TRUE, prefix |-> h.prefix, rest |-> h.rest]
    ELSE [some |-> FALSE]

(* The Config extension is installed by routes.rs for every route. *)
ConfigInExtensions == TRUE

AppError(variant, msg) == [variant |-> variant, msg |-> msg]

(* A rejection before verify_token was called, and one after it failed. *)
Rejected(e) ==
    [err |-> <<e>>, downstream |-> FALSE, principal |-> <<>>, verified |-> <<>>]

RejectedToken(e, v) ==
    [err |-> <<e>>, downstream |-> FALSE, principal |-> <<>>, verified |-> <<v>>]

(* auth_middleware, up to the call of next.run(req): the error returned, or *)
(* the principal inserted into the request extensions.                      *)
auth_middleware(h, t) ==
    IF h.kind = "absent" \/ ~ToStr(h).some
    THEN Rejected(AppError("Unauthorized", <<"Missing authorization header">>))
    ELSE IF ToStr(h).prefix # "Bearer "
    THEN Rejected(AppError("Unauthorized", <<"Invalid authorization header format">>))
    ELSE IF ~ConfigInExtensions
    THEN Rejected(AppError("Internal", <<"Config not found in request extensions">>))
    ELSE LET v == verify_token(ToStr(h).rest, t)
         IN  IF ~v.ok
             THEN RejectedToken(AppError("Authentication", <<"Invalid token: ", v.kind>>), v)
             ELSE [err |-> <<>>, downstream |-> TRUE, principal |-> <<v.claims.sub>>,
                   verified |-> <<v>>]

(* bcrypt::hash with a fresh salt, and bcrypt::verify, which fails with *)
(* InvalidHash on a string that is no bcrypt hash.                      *)
hash_password(password, salt) ==
    [ok |-> TRUE, hash |-> [kind |-> "bcrypt", salt |-> salt, digest |-> <<salt, password>>]]

verify_password(password, hash) ==
    IF hash.kind # "bcrypt" THEN [ok |-> FALSE, kind |-> "InvalidHash"]
    ELSE [ok |-> TRUE, value |-> (hash.digest = <<hash.salt, password>>)]

----------------------------------------------------------------------------
(* handlers/auth.rs *)

Workers == {"w1", "w2"}
Passwords == {"pw-one", "pw-two"}
Usernames == {"ann", "bob"}
Idle == [pc |-> "idle"]
NoResp == [op |-> "none"]

(* Config::from_env's default for JWT_EXPIRATION. *)
DefaultJwtExpiration == 86400

(* payload.validate() of CreateUser and LoginUser. *)
Validate(payload) == payload.email # "" /\ payload.password # ""

SignupPayloads ==
    [email : Emails \cup {""}, username : Usernames, password : Passwords]

LoginPayloads == [email : Emails \cup {""}, password : Passwords]

(* SELECT * FROM users WHERE email = $1 OR username = $2 *)
ExistingUsers(table, email, username) ==
    {u \in table : u.email = email \/ u.username = username}

(* SELECT * FROM users WHERE email = $1 *)
UsersByEmail(table, email) == {u \in table : u.email = email}

Ok(status, token, user) ==
    [status |-> status, err |-> <<>>, token |-> <<token>>, user |-> <<user>>]

Fail(e) == [status |-> "Err", err |-> <<e>>, token |-> <<>>, user |-> <<>>]

GenericLoginError == AppError("Authentication", <<"Invalid email or password">>)

(* signup, lines 16-31: validation and the existence check. *)
signup_check(payload, table) ==
    IF ~Validate(payload) THEN <<Fail(AppError("Validation", <<"invalid input">>))>>
    ELSE IF ExistingUsers(table, payload.email, payload.username) # {}
    THEN <<Fail(AppError("BadRequest",
                         <<"User with this email or username already exists">>))>>
    ELSE <<>>

(* signup, lines 33-57: hash, INSERT ... RETURNING *, token, 201.  The   *)
(* INSERT fails with a database error when the table enforces uniqueness *)
(* and the row collides.                                                 *)
signup_insert(payload, table, id, unique, ttl, t) ==
    LET h == hash_password(payload.password, id)
        row == [id |-> id, email |-> payload.email, username |-> payload.username,
                password_hash |-> h.hash]
        tk == create_token(id, payload.email, ttl, t)
    IN  IF unique /\ ExistingUsers(table, payload.email, payload.username) # {}
        THEN [rows |-> {}, out |-> Fail(AppError("Database", <<"unique violation">>))]
        ELSE IF ~tk.ok
        THEN [rows |-> {row}, out |-> Fail(AppError("Internal", <<"Failed to create token">>))]
        ELSE [rows |-> {row}, out |-> Ok("Created", tk.token, id)]

(* A login that tells an unknown email from a wrong password. *)
login_distinct(payload, found, ttl, t) ==
    IF found = <<>> THEN Fail(AppError("Authentication", <<"User not found">>))
    ELSE Fail(GenericLoginError)

(* login with the row fetch_optional returned (found = <<>> for none). *)
login(payload, found, ttl, t) ==
    IF ~Validate(payload) THEN Fail(AppError("Validation", <<"invalid input">>))
    ELSE IF found = <<>> THEN Fail(GenericLoginError)
    ELSE LET v == verify_password(payload.password, found[1].password_hash)
             tk == create_token(found[1].id, found[1].email, ttl, t)
         IN  IF ~v.ok
             THEN Fail(AppError("Internal", <<"Failed to verify password: ", v.kind>>))
             ELSE IF ~v.value THEN Fail(GenericLoginError)
             ELSE IF ~tk.ok THEN Fail(AppError("Internal", <<"Failed to create token">>))
             ELSE Ok("Ok", tk.token, found[1].id)

----------------------------------------------------------------------------
(* handlers/items.rs *)

MaxItems == 2

(* CreateItem / UpdateItem: #[validate(length(min = 1, max = 255))] *)
MinTitle == 1
MaxTitle == 255

None == <<>>
Some(x) == <<x>>

(* COALESCE($n, column) *)
Coalesce(opt, column) == IF opt = None THEN column ELSE opt[1]

ValidTitle(title) == Len(title) >= MinTitle /\ Len(title) <= MaxTitle

(* The status column's default, set by the table definition. *)
DefaultStatus == "column-default"

ItemFail(e) == [status |-> "Err", err |-> <<e>>, rows |-> {}]

ItemOk(status, rows) == [status |-> status, err |-> <<>>, rows |-> rows]

NotFound == AppError("NotFound", <<"Item not found">>)

InvalidUserId == AppError("Internal", <<"Invalid user ID format">>)

(* ... WHERE id = $1, without the owner. *)
OwnRowsAnyOwner(table, item_id, user_uuid) == {r \in table : r.id = item_id}

(* ... WHERE id = $1 AND user_id = $2 *)
OwnRows(table, item_id, user_uuid) ==
    {r \in table : r.id = item_id /\ r.user_id = user_uuid}

(* SELECT * FROM items WHERE user_id = $1 *)
RowsOf(table, user_uuid) == {r \in table : r.user_id = user_uuid}

(* Each handler below takes the Extension<String> the gate inserted and *)
(* returns the response and the table after it.                         *)
create_item(user_id, payload, table, id) ==
    IF ~ValidTitle(payload.title)
    THEN [table |-> table, out |-> ItemFail(AppError("Validation", <<"invalid input">>))]
    ELSE IF ~ParseUuid(user_id).ok
    THEN [table |-> table, out |-> ItemFail(InvalidUserId)]
    ELSE LET row == [id |-> id, user_id |-> ParseUuid(user_id).id,
                     title |-> payload.title, description |-> payload.description,
                     status |-> DefaultStatus]
         IN  [table |-> table \cup {row}, out |-> ItemOk("Created", {row})]

get_items(user_id, table) ==
    IF ~ParseUuid(user_id).ok THEN ItemFail(InvalidUserId)
    ELSE ItemOk("Ok", RowsOf(table, ParseUuid(user_id).id))

get_item(user_id, item_id, table) ==
    IF ~ParseUuid(user_id).ok THEN ItemFail(InvalidUserId)
    ELSE IF OwnRows(table, item_id, ParseUuid(user_id).id) = {} THEN ItemFail(NotFound)
    ELSE ItemOk("Ok", OwnRows(table, item_id, ParseUuid(user_id).id))

(* update_item, lines 88-105: validation, parse and the ownership check. *)
update_check(user_id, item_id, payload, table) ==
    IF payload.title # None /\ ~ValidTitle(payload.title[1])
    THEN <<ItemFail(AppError("Validation", <<"invalid input">>))>>
    ELSE IF ~ParseUuid(user_id).ok THEN <<ItemFail(InvalidUserId)>>
    ELSE IF OwnRows(table, item_id, ParseUuid(user_id).id) = {} THEN <<ItemFail(NotFound)>>
    ELSE <<>>

(* update_item, lines 107-126: UPDATE ... RETURNING * with fetch_one, *)
(* which fails with RowNotFound when no row is left to update.        *)
update_write(user_uuid, item_id, payload, table) ==
    LET old == OwnRows(table, item_id, user_uuid)
        new == {[r EXCEPT !.title = Coalesce(payload.title, r.title),
                          !.description = IF payload.description = None
                                          THEN r.description ELSE payload.description,
                          !.status = Coalesce(payload.status, r.status)] : r \in old}
    IN  IF old = {}
        THEN [table |-> table, out |-> ItemFail(AppError("Database", <<"RowNotFound">>))]
        ELSE [table |-> (table \ old) \cup new, out |-> ItemOk("Ok", new)]

delete_item(user_id, item_id, table) ==
    IF ~ParseUuid(user_id).ok THEN [table |-> table, out |-> ItemFail(InvalidUserId)]
    ELSE LET hit == OwnRows(table, item_id, ParseUuid(user_id).id)
         IN  IF Cardinality(hit) = 0
             THEN [table |-> table, out |-> ItemFail(NotFound)]
             ELSE [table |-> table \ hit, out |-> ItemOk("NoContent", {})]

----------------------------------------------------------------------------
(* Token strings a client can present besides the ones it was issued. *)

Headers == {EncodeHeader("HS256"), EncodeHeader("HS384"), Junk}

Payloads ==
    {Junk, NotClaims} \cup
    {EncodeClaims([sub |-> UuidToString(u), email |-> "a@b.com", exp |-> e, iat |-> 0]) :
        u \in Uuids, e \in {0, MaxTime}}

FreshTokens ==
    {<<h, p, Sign(k, h, p)>> : h \in Headers, p \in Payloads, k \in {JwtSecret, OtherKey}}

ExtendExp(p) ==
    IF p.kind = "claims" THEN [p EXCEPT !.exp = MaxTime] ELSE Junk

Tampered(t) ==
    IF ~meta.issued THEN {}
    ELSE {<<t[1], t[2]>>,
          Append(t, Junk),
          <<t[1], Junk, t[3]>>,
          <<t[1], ExtendExp(t[2]), t[3]>>,
          <<t[1], t[2], Sign(OtherKey, t[1], t[2])>>}

NotIssued == [issued |-> FALSE]

(* Authorization header values of a request. *)
HeaderInputs(t) ==
    {[kind |-> "absent"],
     [kind |-> "bytes"],
     [kind |-> "text", prefix |-> "Basic ", rest |-> <<Junk>>],
     [kind |-> "text", prefix |-> "bearer ", rest |-> t],
     [kind |-> "text", prefix |-> "Bearer ", rest |-> t]}

NoGate == [hdr |-> "none"]

----------------------------------------------------------------------------
(* Signup and login: state machine *)

InitNoItems ==
    /\ items = {}
    /\ nextItem = 1
    /\ itemResp = NoResp
    /\ actor = 0

InitAuthIdle ==
    /\ users = {}
    /\ plain = {}
    /\ nextUser = 1
    /\ schemaUnique = FALSE
    /\ proc = [w \in Workers |-> Idle]
    /\ resp = [w \in Workers |-> NoResp]
    /\ InitNoItems

InitAuth ==
    /\ now = 0
    /\ jwt_expiration = DefaultJwtExpiration
    /\ tok = NoToken
    /\ meta = NotIssued
    /\ last = [op |-> "none"]
    /\ gate = [c \in Clients |-> NoGate]
    /\ users = {}
    /\ plain = {}
    /\ nextUser = 1
    /\ schemaUnique \in BOOLEAN
    /\ proc = [w \in Workers |-> Idle]
    /\ resp = [w \in Workers |-> NoResp]
    /\ InitNoItems

InFlight == {w \in Workers : proc[w].pc # "idle"}

(* Worker w takes a signup request up to the await of the INSERT. *)
SignupBegin(w, payload) ==
    LET r == signup_check(payload, users)
    IN  /\ proc[w].pc = "idle"
        /\ Cardinality(users) + Cardinality(InFlight) < MaxUsers
        /\ IF r # <<>>
           THEN /\ resp' = [resp EXCEPT ![w] =
                              [op |-> "signup", out |-> r[1],
                               taken |-> (payload.email # "" /\
                                          \E u \in users : u.email = payload.email
                                              \/ u.username = payload.username)]]
                /\ proc' = proc
           ELSE /\ proc' = [proc EXCEPT ![w] = [pc |-> "signup_insert", payload |-> payload]]
                /\ resp' = resp
        /\ UNCHANGED <<users, plain, nextUser, schemaUnique>>
        /\ UNCHANGED <<tokenVars, itemVars>>

(* Worker w runs the INSERT and finishes the signup. *)
SignupInsert(w) ==
    /\ proc[w].pc = "signup_insert"
    /\ LET p == proc[w].payload
           r == signup_insert(p, users, nextUser, schemaUnique, jwt_expiration, now)
       IN  /\ users' = users \cup r.rows
           /\ plain' = plain \cup {<<row.id, p.password>> : row \in r.rows}
           /\ nextUser' = nextUser + Cardinality(r.rows)
           /\ resp' = [resp EXCEPT ![w] =
                          [op |-> "signup", out |-> r.out,
                           taken |-> (\E u \in users :
                                         u.email = p.email \/ u.username = p.username)]]
    /\ proc' = [proc EXCEPT ![w] = Idle]
    /\ UNCHANGED schemaUnique
    /\ UNCHANGED <<tokenVars, itemVars>>

(* Worker w serves a login request; fetch_optional returns one of the *)
(* rows with that email, or none.                                     *)
Login(w, payload) ==
    /\ proc[w].pc = "idle"
    /\ \E found \in IF UsersByEmail(users, payload.email) = {} THEN {<<>>}
                    ELSE {<<u>> : u \in UsersByEmail(users, payload.email)} :
          resp' = [resp EXCEPT ![w] =
                      [op |-> "login",
                       valid |-> (payload.email # "" /\ payload.password # ""),
                       known |-> (found # <<>>),
                       right |-> (found # <<>> /\ <<found[1].id, payload.password>> \in plain),
                       out |-> login(payload, found, jwt_expiration, now)]]
    /\ UNCHANGED <<users, plain, nextUser, schemaUnique, proc>>
    /\ UNCHANGED <<tokenVars, itemVars>>

NextAuth ==
    \/ \E w \in Workers, p \in SignupPayloads : SignupBegin(w, p)
    \/ \E w \in Workers : SignupInsert(w)
    \/ \E w \in Workers, p \in LoginPayloads : Login(w, p)

SpecAuth == InitAuth /\ [][NextAuth]_vars

(* Login against a users table whose one row holds any stored credential, *)
(* a string that is no bcrypt hash included.                              *)
Corrupt == [kind |-> "text", text |-> "not-a-bcrypt-hash"]

StoredHashes == {hash_password(pw, 1).hash : pw \in Passwords} \cup {Corrupt}

InitCred ==
    /\ now = 0
    /\ jwt_expiration = DefaultJwtExpiration
    /\ tok = NoToken
    /\ meta = NotIssued
    /\ last = [op |-> "none"]
    /\ gate = [c \in Clients |-> NoGate]
    /\ \E e \in Emails, h \in StoredHashes :
          /\ users = {[id |-> 1, email |-> e, username |-> "ann", password_hash |-> h]}
          /\ plain = {<<1, pw>> : pw \in {q \in Passwords : hash_password(q, 1).hash = h}}
    /\ nextUser = 2
    /\ schemaUnique \in BOOLEAN
    /\ proc = [w \in Workers |-> Idle]
    /\ resp = [w \in Workers |-> NoResp]
    /\ InitNoItems

(* verify_password applied to a password and the stored credential of u. *)
CheckPassword(pw, u) ==
    /\ last' = [op |-> "verify_password",
                match |-> (<<u.id, pw>> \in plain),
                res |-> verify_password(pw, u.password_hash)]
    /\ UNCHANGED <<now, jwt_expiration, tok, meta, gate>>
    /\ UNCHANGED appVars

NextCred ==
    \/ \E pw \in Passwords, u \in users : CheckPassword(pw, u)
    \/ \E w \in Workers, p \in LoginPayloads : Login(w, p)

SpecCred == InitCred /\ [][NextCred]_vars

----------------------------------------------------------------------------
(* Items behind the gate: state machine *)

ItemUsers == {1, 2}

(* The worker that may be between update_item's SELECT and its UPDATE *)
(* while the other requests run.                                      *)
UpdateWorkers == {"w1"}
ItemIds == 1..MaxItems

EmailOf(u) == IF u = 1 THEN "a@b.com" ELSE "c@d.com"

(* The token login returned to user u. *)
TokenOf(u) == create_token(u, EmailOf(u), DefaultJwtExpiration, 0).token

Bearer(t) == [kind |-> "text", prefix |-> "Bearer ", rest |-> t]

(* Headers of the requests: none, each user's own token, and user 1's *)
(* claims under the signature of user 2's token.                      *)
ItemHeaders ==
    {[kind |-> "absent"]}
    \cup {Bearer(TokenOf(u)) : u \in ItemUsers}
    \cup {Bearer(<<TokenOf(2)[1], TokenOf(1)[2], TokenOf(2)[3]>>)}

(* ghost: the user the presented token was issued to, 0 for nobody. *)
IssuedTo(h) ==
    IF h.kind = "text" /\ h.prefix = "Bearer " /\ \E u \in ItemUsers : h.rest = TokenOf(u)
    THEN CHOOSE u \in ItemUsers : h.rest = TokenOf(u)
    ELSE 0

(* ghost: the owner of item id, 0 when there is none. *)
OwnerOf(id) ==
    IF \E r \in items : r.id = id THEN (CHOOSE r \in items : r.id = id).user_id ELSE 0

CreatePayloads ==
    {[title |-> "a", description |-> None], [title |-> "", description |-> None]}

UpdatePayloads ==
    {[title |-> Some("b"), description |-> Some("d"), status |-> None],
     [title |-> Some(""), description |-> None, status |-> None]}

InitItems ==
    /\ now = 0
    /\ jwt_expiration = DefaultJwtExpiration
    /\ tok = NoToken
    /\ meta = NotIssued
    /\ last = [op |-> "none"]
    /\ gate = [c \in Clients |-> NoGate]
    /\ users = {[id |-> u, email |-> EmailOf(u), username |-> IF u = 1 THEN "ann" ELSE "bob",
                 password_hash |-> hash_password("pw-one", u).hash] : u \in ItemUsers}
    /\ plain = {<<u, "pw-one">> : u \in ItemUsers}
    /\ nextUser = 3
    /\ schemaUnique \in BOOLEAN
    /\ proc = [w \in Workers |-> Idle]
    /\ resp = [w \in Workers |-> NoResp]
    /\ InitNoItems

(* The response record of a finished items request, with its ghosts. *)
Finished(op, h, id, wellformed, handled, out) ==
    [op |-> op, wellformed |-> wellformed, handled |-> handled,
     status |-> out.status, err |-> out.err,
     owners |-> {r.user_id : r \in out.rows},
     bearer |-> IssuedTo(h), owner |-> OwnerOf(id)]

GateErr(g) == [status |-> "Err", err |-> g.err, rows |-> {}]

CreateItem(h, payload) ==
    LET g == auth_middleware(h, now)
        r == create_item(g.principal[1], payload, items, nextItem)
    IN  /\ nextItem <= MaxItems
        /\ IF ~g.downstream
           THEN /\ itemResp' = Finished("create_item", h, 0, payload.title # "", FALSE, GateErr(g))
                /\ UNCHANGED <<items, nextItem, actor>>
           ELSE /\ itemResp' = Finished("create_item", h, 0, payload.title # "", TRUE, r.out)
                /\ items' = r.table
                /\ nextItem' = nextItem + Cardinality(r.table \ items)
                /\ actor' = IssuedTo(h)
        /\ UNCHANGED <<tokenVars, authVars>>

GetItems(h) ==
    LET g == auth_middleware(h, now)
    IN  /\ itemResp' = IF ~g.downstream
                       THEN Finished("get_items", h, 0, TRUE, FALSE, GateErr(g))
                       ELSE Finished("get_items", h, 0, TRUE, TRUE,
                                     get_items(g.principal[1], items))
        /\ UNCHANGED <<items, nextItem, actor>>
        /\ UNCHANGED <<tokenVars, authVars>>

GetItem(h, id) ==
    LET g == auth_middleware(h, now)
    IN  /\ itemResp' = IF ~g.downstream
                       THEN Finished("get_item", h, id, TRUE, FALSE, GateErr(g))
                       ELSE Finished("get_item", h, id, TRUE, TRUE,
                                     get_item(g.principal[1], id, items))
        /\ UNCHANGED <<items, nextItem, actor>>
        /\ UNCHANGED <<tokenVars, authVars>>

(* Worker w takes a PUT /items/:id up to the await of the UPDATE. *)
UpdateBegin(w, h, id, payload) ==
    LET g == auth_middleware(h, now)
        r == update_check(g.principal[1], id, payload, items)
    IN  /\ proc[w].pc = "idle"
        /\ IF ~g.downstream
           THEN /\ itemResp' = Finished("update_item", h, id, payload.title # Some(""), FALSE, GateErr(g))
                /\ proc' = proc
           ELSE IF r # <<>>
           THEN /\ itemResp' = Finished("update_item", h, id, payload.title # Some(""), TRUE, r[1])
                /\ proc' = proc
           ELSE /\ proc' = [proc EXCEPT ![w] =
                               [pc |-> "update_write",
                                user_uuid |-> ParseUuid(g.principal[1]).id,
                                item_id |-> id, payload |-> payload, hdr |-> h]]
                /\ itemResp' = itemResp
        /\ UNCHANGED <<items, nextItem, actor>>
        /\ UNCHANGED <<tokenVars, users, plain, nextUser, schemaUnique, resp>>

UpdateWrite(w) ==
    /\ proc[w].pc = "update_write"
    /\ LET r == update_write(proc[w].user_uuid, proc[w].item_id, proc[w].payload, items)
       IN  /\ items' = r.table
           /\ itemResp' = Finished("update_item", proc[w].hdr, proc[w].item_id,
                                 proc[w].payload.title # Some(""), TRUE, r.out)
           /\ actor' = IssuedTo(proc[w].hdr)
    /\ proc' = [proc EXCEPT ![w] = Idle]
    /\ UNCHANGED <<nextItem, tokenVars, users, plain, nextUser, schemaUnique, resp>>

DeleteItem(h, id) ==
    LET g == auth_middleware(h, now)
        r == delete_item(g.principal[1], id, items)
    IN  /\ IF ~g.downstream
           THEN /\ itemResp' = Finished("delete_item", h, id, TRUE, FALSE, GateErr(g))
                /\ UNCHANGED <<items, actor>>
           ELSE /\ itemResp' = Finished("delete_item", h, id, TRUE, TRUE, r.out)
                /\ items' = r.table
                /\ actor' = IssuedTo(h)
        /\ UNCHANGED <<nextItem, tokenVars, authVars>>

NextItems ==
    \/ \E h \in ItemHeaders, p \in CreatePayloads : CreateItem(h, p)
    \/ \E h \in ItemHeaders : GetItems(h)
    \/ \E h \in ItemHeaders, id \in ItemIds : GetItem(h, id)
    \/ \E w \in UpdateWorkers, h \in ItemHeaders, id \in ItemIds, p \in UpdatePayloads :
          UpdateBegin(w, h, id, p)
    \/ \E w \in UpdateWorkers : UpdateWrite(w)
    \/ \E h \in ItemHeaders, id \in ItemIds : DeleteItem(h, id)

SpecItems == InitItems /\ [][NextItems]_vars

----------------------------------------------------------------------------
(* Token service and gate: state machine *)

TtlChoices == (0 - 1)..MaxTtl

InitToken ==
    /\ InitAuthIdle
    /\ now = 0
    /\ jwt_expiration \in TtlChoices
    /\ tok = NoToken
    /\ meta = NotIssued
    /\ last = [op |-> "none"]
    /\ gate = [c \in Clients |-> NoGate]

(* A signup or login handler reaches create_token for user u.  The guard  *)
(* bounds the times at which tokens are issued.                            *)
Issue(u, e) ==
    LET r == create_token(u, e, jwt_expiration, now)
    IN  /\ now <= MaxIssueTime \/ now = Leeway + MaxTtl + 1
        /\ last' = [op |-> "issue", res |-> r]
        /\ tok' = IF r.ok THEN r.token ELSE tok
        /\ meta' = IF r.ok
                   THEN [issued |-> TRUE, user |-> u, email |-> e,
                         ttl |-> jwt_expiration, at |-> now]
                   ELSE meta
        /\ UNCHANGED <<now, jwt_expiration, gate>>
        /\ UNCHANGED appVars

(* The client replaces its token by one nobody issued. *)
Forge(t) ==
    /\ t # tok
    /\ tok' = t
    /\ meta' = NotIssued
    /\ last' = [op |-> "none"]
    /\ UNCHANGED <<now, jwt_expiration, gate>>
    /\ UNCHANGED appVars

Tick(d) ==
    /\ now + d <= MaxTime
    /\ now' = now + d
    /\ last' = [op |-> "none"]
    /\ UNCHANGED <<jwt_expiration, tok, meta, gate>>
    /\ UNCHANGED appVars

Verify ==
    /\ tok # NoToken
    /\ last' = [op |-> "verify", res |-> verify_token(tok, now)]
    /\ UNCHANGED <<now, jwt_expiration, tok, meta, gate>>
    /\ UNCHANGED appVars

(* Client c sends a request with header h to a protected route. *)
Gate(c, h) ==
    /\ gate' = [gate EXCEPT ![c] =
                   [hdr |-> h.kind,
                    prefix |-> IF h.kind = "text" THEN h.prefix ELSE "",
                    out |-> auth_middleware(h, now)]]
    /\ UNCHANGED <<now, jwt_expiration, tok, meta, last>>
    /\ UNCHANGED appVars

NextToken ==
    \/ \E u \in Uuids, e \in Emails : Issue(u, e)
    \/ \E t \in FreshTokens \cup Tampered(tok) : Forge(t)
    \/ \E d \in {1, Leeway} : Tick(d)
    \/ Verify

SpecToken == InitToken /\ [][NextToken]_vars

NextGate ==
    \/ \E u \in Uuids : Issue(u, "a@b.com")
    \/ \E t \in FreshTokens \cup Tampered(tok) : Forge(t)
    \/ Tick(Leeway + MaxTtl + 1)
    \/ \E c \in Clients, h \in HeaderInputs(tok) : Gate(c, h)

SpecGate == InitToken /\ [][NextGate]_vars

----------------------------------------------------------------------------
(* Claims about the token service (SpecToken) *)

(* tok is well-formed and carries the MAC of its own two segments under *)
(* the server's secret.                                                  *)
WellFormed(t) == Len(t) = 3 /\ t[1].kind = "hdr" /\ t[2].kind = "claims"

MacMatches(t) == Len(t) = 3 /\ t[3] = Sign(JwtSecret, t[1], t[2])

(* The header names the server's algorithm, or does not decode at all. *)
ServerAlg(t) == Len(t) = 3 /\ t[1].kind = "hdr" => t[1].alg = "HS256"

(* C3: a correctly signed token verified at a time now > exp fails with   *)
(* Expired (one issued with ttl = 1 is rejected 2 seconds later), and a   *)
(* token once rejected as Expired is accepted at no later time.           *)
C3_ExpiredAfterExp ==
    (last.op = "verify" /\ jwt_expiration > 0) =>
        /\ (meta.issued /\ now > tok[2].exp) => IsExpired(last.res)
        /\ IsExpired(last.res)
           => \A t \in now..MaxTime : ~verify_token(tok, t).ok

(* C4: failures are classified in the order Malformed, InvalidSignature,  *)
(* Expired, the first match winning, and only a token passing all three   *)
(* checks yields Claims.                                                  *)
C4_ClassificationOrder ==
    (last.op = "verify" /\ jwt_expiration > 0 /\ ServerAlg(tok)) =>
        /\ ~WellFormed(tok) => IsMalformed(last.res)
        /\ (WellFormed(tok) /\ ~MacMatches(tok)) => IsInvalidSignature(last.res)
        /\ (WellFormed(tok) /\ MacMatches(tok) /\ now > tok[2].exp)
           => IsExpired(last.res)
        /\ last.res.ok
           => (WellFormed(tok) /\ MacMatches(tok) /\ now <= tok[2].exp)

(* C5: verifying a token returned by create_token, with a ttl > 0 and     *)
(* before ttl seconds have elapsed, succeeds and returns the issued       *)
(* subject and email and exp - iat = ttl.                                 *)
C5_RoundTrip ==
    (last.op = "verify" /\ meta.issued /\ meta.ttl > 0 /\ now - meta.at < meta.ttl)
    => /\ last.res.ok
       /\ last.res.claims.sub = UuidToString(meta.user)
       /\ last.res.claims.email = meta.email
       /\ last.res.claims.exp - last.res.claims.iat = meta.ttl

C5_Witness ==
    /\ last.op = "verify" /\ meta.issued /\ meta.ttl > 1
    /\ now - meta.at = meta.ttl - 1
    /\ last.res.ok /\ last.res.claims.sub = UuidToString(meta.user)

(* C6: issuance with a ttl <= 0 fails and produces no token, so every    *)
(* issued token has exp > iat.                                           *)
C6_NonPositiveTtlRejected ==
    /\ (last.op = "issue" /\ jwt_expiration <= 0) => ~last.res.ok
    /\ meta.issued => tok[2].exp > tok[2].iat

----------------------------------------------------------------------------
(* Claims about the gate (SpecGate) *)

VerificationFailed(g) ==
    /\ g.hdr = "text" /\ g.prefix = "Bearer "
    /\ g.out.verified # <<>>
    /\ \/ IsMalformed(g.out.verified[1])
       \/ IsInvalidSignature(g.out.verified[1])
       \/ IsExpired(g.out.verified[1])

(* C1: a request whose bearer token fails verification never reaches the *)
(* downstream handler, and the error returned is the same whatever the   *)
(* failure kind.                                                         *)
C1_UniformRejection ==
    \A c \in Clients, d \in Clients :
        (VerificationFailed(gate[c]) /\ VerificationFailed(gate[d]))
        => /\ ~gate[c].out.downstream
           /\ gate[c].out.err = gate[d].out.err

(* C2: an absent header is rejected as Unauthorized (missing header), a  *)
(* present header that does not start with "Bearer " as Unauthorized     *)
(* (bad scheme), both before verification and without the handler.       *)
C2_HeaderRejections ==
    \A c \in Clients :
        /\ gate[c].hdr = "absent"
           => gate[c].out.err =
                 <<AppError("Unauthorized", <<"Missing authorization header">>)>>
        /\ (gate[c].hdr = "bytes" \/ (gate[c].hdr = "text" /\ gate[c].prefix # "Bearer "))
           => gate[c].out.err =
                 <<AppError("Unauthorized", <<"Invalid authorization header format">>)>>
        /\ (gate[c].hdr \in {"absent", "bytes"}
              \/ (gate[c].hdr = "text" /\ gate[c].prefix # "Bearer "))
           => (gate[c].out.verified = <<>> /\ ~gate[c].out.downstream)

----------------------------------------------------------------------------
(* Claims about signup and login (SpecAuth, SpecCred) *)

WrongPassword(r) == r.op = "login" /\ r.valid /\ r.known /\ ~r.right

UnknownEmail(r) == r.op = "login" /\ r.valid /\ ~r.known

(* C7: verify_password returns false, not an error, for every mismatch,  *)
(* a malformed stored credential included, so a login against a corrupt  *)
(* password_hash ends as a login with a wrong password does.             *)
C7_CorruptHashIsMismatch ==
    /\ (last.op = "verify_password" /\ ~last.match)
       => (last.res.ok /\ ~last.res.value)
    /\ \A w \in Workers :
          WrongPassword(resp[w]) => resp[w].out = Fail(GenericLoginError)

(* C8: a valid login with an unknown email and one with a known email   *)
(* and a wrong password return the same error, Authentication("Invalid  *)
(* email or password"), and no token.                                   *)
C8_LoginFailuresCollapse ==
    \A w \in Workers, x \in Workers :
        ((UnknownEmail(resp[w]) \/ WrongPassword(resp[w]))
           /\ (UnknownEmail(resp[x]) \/ WrongPassword(resp[x])))
        => /\ resp[w].out = resp[x].out
           /\ resp[w].out.err = <<GenericLoginError>>
           /\ resp[w].out.token = <<>>

C8_Witness ==
    \E w \in Workers, x \in Workers :
        /\ UnknownEmail(resp[w]) /\ WrongPassword(resp[x])
        /\ resp[w].out = resp[x].out
        /\ users # {}

(* C10: a signup whose email or username belongs to a stored user       *)
(* returns BadRequest and inserts nothing, and no two stored users ever *)
(* share an email or a username.                                        *)
C10_SignupUniqueness ==
    /\ \A u \in users, v \in users :
          u # v => (u.email # v.email /\ u.username # v.username)
    /\ \A w \in Workers :
          (resp[w].op = "signup" /\ resp[w].taken)
          => resp[w].out.err =
                <<AppError("BadRequest",
                           <<"User with this email or username already exists">>)>>

----------------------------------------------------------------------------
(* Claims about the items handlers (SpecItems) *)

(* A handler runs only for a request bearing a token issued to a user, *)
(* with that user as its principal.                                    *)
PrincipalIsBearer ==
    /\ \A w \in Workers :
          proc[w].pc = "update_write"
          => (IssuedTo(proc[w].hdr) # 0 /\ proc[w].user_uuid = IssuedTo(proc[w].hdr))
    /\ (itemResp.op # "none" /\ itemResp.handled) => itemResp.bearer # 0

(* Every row a response returns belongs to the bearer of the request. *)
ReadsOwn == itemResp.op # "none" => itemResp.owners \subseteq {itemResp.bearer}

(* A row is created, changed or deleted only by a request bearing its *)
(* owner's token.                                                     *)
WritesOwn ==
    \A r \in (items \ items') \cup (items' \ items) :
        actor' # 0 /\ r.user_id = actor'

ForeignItem(r) ==
    /\ r.op \in {"get_item", "update_item", "delete_item"}
    /\ r.handled
    /\ r.owner \notin {0, r.bearer}

(* C9 as stated: isolation, and every request for another user's item *)
(* returns NotFound.                                                  *)
C9_IsolationAnyRequest ==
    /\ [](PrincipalIsBearer /\ ReadsOwn)
    /\ [][WritesOwn]_vars
    /\ [](ForeignItem(itemResp) => itemResp.err = <<NotFound>>)

(* C9, amended: isolation, and every request for another user's item  *)
(* that passes input validation returns NotFound; in both cases the   *)
(* item is left unchanged.                                            *)
C9_Isolation ==
    /\ [](PrincipalIsBearer /\ ReadsOwn)
    /\ [][WritesOwn]_vars
    /\ []((ForeignItem(itemResp) /\ itemResp.wellformed) => itemResp.err = <<NotFound>>)

C9_Witness ==
    /\ ForeignItem(itemResp) /\ itemResp.wellformed
    /\ itemResp.op = "delete_item"
    /\ itemResp.err = <<NotFound>>
    /\ \E r \in items : r.user_id = itemResp.owner /\ r.title = "b"
    /\ actor # 0

====
